---- MODULE Spec2Model ----
(***************************************************************************)
(* i2c over rpmsg (drivers/i2c/busses/i2c-rpmsg-imx.c).                    *)
(*                                                                         *)
(* Caller threads run i2c_rpbus_xfer; the rpmsg receive context runs       *)
(* i2c_rpmsg_cb.  The state is the static i2c_rpmsg object (lock,          *)
(* cmd_complete, msg, bus_id, addr), the receive buffers that              *)
(* i2c_rpmsg.msg points into, the requests the remote side has taken and   *)
(* may still answer, and every caller's position and locals.               *)
(*                                                                         *)
(* Init is the state after i2c_rpmsg_probe: the channel is bound           *)
(* (rpdev set), the mutex and the completion are initialised.              *)
(*                                                                         *)
(* i2c_rpmsg_cb stores the POINTER it is handed (line 146); the memory     *)
(* belongs to the transport, which hands the buffer back to the remote     *)
(* side when the callback returns, so a later frame may be received into   *)
(* the very buffer i2c_rpmsg.msg still points to.  The variable msg is     *)
(* NULL or the present content of the buffer pointed to.  The caller       *)
(* dereferences i2c_rpmsg.msg anew at lines 171, 174, 219 and 225, with    *)
(* no lock shared with the callback, so each read is a step of its own.    *)
(* The content is kept in the state only while a caller can still read     *)
(* it (Readable); otherwise msg is STALE: a pointer whose target no        *)
(* statement of the driver reads before the callback replaces it.          *)
(*                                                                         *)
(* The arguments of a call are drawn when the code first reads them: num   *)
(* when the loop starts, msgs[i] when the loop reaches it (the driver      *)
(* never looks ahead in msgs[]).                                           *)
(***************************************************************************)
EXTENDS Integers, Sequences, FiniteSets, TLC

(* ---- bounds of the model ---- *)
NumThreads == 2     \* concurrent callers of i2c_rpbus_xfer
MaxMsgs    == 2     \* largest num of one transfer
MaxDone    == 2     \* cap of completion.done

(* ---- program constants ---- *)
I2C_RPMSG_MAX_BUF_SIZE   == 16
I2C_RPMSG_CATEGORY       == 9
I2C_RPMSG_VERSION        == 1
I2C_RPMSG_TYPE_REQUEST   == 0
I2C_RPMSG_TYPE_RESPONSE  == 1
I2C_RPMSG_COMMAND_READ   == 0
I2C_RPMSG_COMMAND_WRITE  == 1
I2C_RPMSG_PRIORITY       == 1
I2C_RPMSG_M_STOP         == 512
I2C_M_RD                 == 1
EINVAL                   == 22
ETIMEDOUT                == 110
EPROTO                   == 71
ENOMEM                   == 12
FrameSize                == 34      \* sizeof(struct i2c_rpmsg_msg)

Threads == 1 .. NumThreads

(* adapter.nr of the adapter thread t calls on *)
AdapterNr(t) == 1

(* ---- input domains ---- *)
Addrs     == {80}
MsgFlags  == {0, I2C_M_RD}
MsgLens   == {2, I2C_RPMSG_MAX_BUF_SIZE + 1}
SendErrs  == {-ENOMEM}

(* ---- 16-bit OR, as C computes msg->flags | I2C_RPMSG_M_STOP ---- *)
RECURSIVE BitOrN(_, _, _)
BitOrN(a, b, n) ==
    IF n = 0 THEN 0
    ELSE (IF a % 2 = 1 \/ b % 2 = 1 THEN 1 ELSE 0)
         + 2 * BitOrN(a \div 2, b \div 2, n - 1)

BitOr(a, b) == BitOrN(a, b, 16)

RECURSIVE BitAndN(_, _, _)
BitAndN(a, b, n) ==
    IF n = 0 THEN 0
    ELSE (IF a % 2 = 1 /\ b % 2 = 1 THEN 1 ELSE 0)
         + 2 * BitAndN(a \div 2, b \div 2, n - 1)

BitAnd(a, b) == BitAndN(a, b, 16)

Max(a, b) == IF a > b THEN a ELSE b

(* ---- caller's data ---- *)
ZeroBuf(n)  == [j \in 1 .. n |-> 0]
WriteData(n) == [j \in 1 .. n |-> 160 + j]

(* struct i2c_msg as the caller passes it *)
I2cMsg(a, f, l) ==
    [addr |-> a, flags |-> f, len |-> l,
     buf |-> IF BitAnd(f, I2C_M_RD) # 0 THEN ZeroBuf(l) ELSE WriteData(l)]

NoMsg   == [addr |-> 0, flags |-> 0, len |-> 0, buf |-> << >>]

(* struct i2c_rpmsg_msg; size is the number of bytes that were sent or
   received (the len argument of i2c_rpmsg_cb), 0 when there is no frame;
   late and cb are history fields, not on the wire:
   late = the remote side sent the frame for a request whose exchange had
          timed out by then
   cb   = what i2c_rpmsg_cb did with the frame: "ok" took it, "type",
          "key", "len" dropped it at that check, "none" never saw it *)
NoFrame ==
    [cate |-> 0, major |-> 0, minor |-> 0, type |-> 0, cmd |-> 0, prio |-> 0,
     bus_id |-> 0, ret_val |-> 0, addr |-> 0, flags |-> 0, len |-> 0,
     buf |-> ZeroBuf(I2C_RPMSG_MAX_BUF_SIZE), size |-> 0,
     late |-> FALSE, cb |-> "none"]

NULL == [null |-> TRUE]
STALE == [stale |-> TRUE]

(* what the remote side keeps of a request it was sent *)
NoReq == [cmd |-> 0, bus_id |-> 0, addr |-> 0, len |-> 0, held |-> FALSE]

VARIABLES
    lock,       \* i2c_rpmsg.lock: the owner, 0 when free
    bus_id,     \* i2c_rpmsg.bus_id
    addr,       \* i2c_rpmsg.addr
    msg,        \* i2c_rpmsg.msg: NULL, or what the buffer pointed to holds
    done,       \* i2c_rpmsg.cmd_complete.done
    remote,     \* the requests the remote side may still answer
    pc,         \* each caller's position
    num,        \* i2c_rpbus_xfer: num
    i,          \* i2c_rpbus_xfer: i
    is_last,    \* i2c_rpbus_xfer: is_last
    pmsg,       \* i2c_rpbus_xfer: *pmsg
    rmsg,       \* i2c_rpmsg_read/write: rmsg
    ret,        \* ret of the innermost function
    hist        \* history of each caller's current call

vars == << lock, bus_id, addr, msg, done, remote,
           pc, num, i, is_last, pmsg, rmsg, ret, hist >>

(* history of one call:
   nhand  frames handed to rpmsg_send
   nfin   exchanges that ended (response consumed, timeout, send failure)
   failk  index of the message whose operation failed, -1 when none did
   faile  the value that operation returned
   orig   the current message as the caller passed it
   resp   the frame the current operation read in its latest check
          (line 171, then line 219)
   code   the ret_val the exchange read at line 171, -1 before it does
   xret   the value rpmsg_xfer returned for the current message, 1 before
          it returns (it returns 0 or less)
   orig, resp, code and xret last as long as the operation *)
NoHist ==
    [nhand |-> 0, nfin |-> 0, failk |-> -1, faile |-> 0,
     orig |-> NoMsg, resp |-> NoFrame, code |-> -1, xret |-> 1]

(* i2c_rpmsg.rpdev is bound: i2c_rpmsg_probe has run, i2c_rpmsg_remove has not *)
rpdev == TRUE

Init ==
    /\ lock = 0
    /\ bus_id = 0
    /\ addr = 0
    /\ msg = NULL
    /\ done = 0
    /\ remote = [cur |-> NoReq, late |-> NoReq]
    /\ pc = [t \in Threads |-> "idle"]
    /\ num = [t \in Threads |-> 0]
    /\ i = [t \in Threads |-> 0]
    /\ is_last = [t \in Threads |-> FALSE]
    /\ pmsg = [t \in Threads |-> NoMsg]
    /\ rmsg = [t \in Threads |-> NoFrame]
    /\ ret = [t \in Threads |-> 0]
    /\ hist = [t \in Threads |-> NoHist]

(* a caller can still read *i2c_rpmsg.msg: it is between the wait and the
   last read, or it will find done raised when it waits *)
Reading == {"ret1", "ret2", "chk", "copy"}

Readable(pcs, d) ==
    \E u \in Threads :
        \/ pcs[u] \in Reading
        \/ pcs[u] \in {"send", "wait"} /\ d > 0

Held(m, pcs, d) == IF m = NULL \/ Readable(pcs, d) THEN m ELSE STALE

(* ------------------------------------------------------------------ *)
(* i2c_rpbus_xfer                                                     *)
(* ------------------------------------------------------------------ *)

(* the bus subsystem calls master_xfer(adapter, msgs, num) *)
Call(t) ==
    /\ pc[t] = "idle"
    /\ pc' = [pc EXCEPT ![t] = "lock"]
    /\ UNCHANGED << lock, bus_id, addr, msg, done, remote,
                    num, i, is_last, pmsg, rmsg, ret, hist >>

(* the call is over: its locals are gone *)
Returned(t) ==
    /\ pc' = [pc EXCEPT ![t] = "idle"]
    /\ num' = [num EXCEPT ![t] = 0]
    /\ i' = [i EXCEPT ![t] = 0]
    /\ is_last' = [is_last EXCEPT ![t] = FALSE]
    /\ pmsg' = [pmsg EXCEPT ![t] = NoMsg]
    /\ rmsg' = [rmsg EXCEPT ![t] = NoFrame]
    /\ ret' = [ret EXCEPT ![t] = 0]
    /\ hist' = [hist EXCEPT ![t] = NoHist]

(* a mutex_lock that never blocks *)
MutexNeverBlocks(t) == TRUE

(* mutex_lock(&i2c_rpmsg.lock): blocks while another caller owns it *)
MutexFree(t) == lock = 0

(* n: the num this call was given, first read by the loop *)
Lock(t, n) ==
    /\ pc[t] = "lock"
    /\ MutexFree(t)
    /\ lock' = t
    /\ num' = [num EXCEPT ![t] = n]
    /\ i' = [i EXCEPT ![t] = 0]
    /\ is_last' = [is_last EXCEPT ![t] = FALSE]
    /\ pc' = [pc EXCEPT ![t] = "loop"]
    /\ UNCHANGED << bus_id, addr, msg, done, remote,
                    pmsg, rmsg, ret, hist >>

(* an is_last that is set with the first message *)
IsLastAtOnce(idx, n, prev) == TRUE

(* if (i == num - 1) is_last = true; *)
IsLast(idx, n, prev) == IF idx = n - 1 THEN TRUE ELSE prev

(* for (i = 0; i < num; i++): one more message m = msgs[i];
   i2c_rpmsg.bus_id = rdata->adapter.nr *)
LoopNext(t, m) ==
    /\ pc[t] = "loop"
    /\ i[t] < num[t]
    /\ is_last' = [is_last EXCEPT ![t] = IsLast(i[t], num[t], is_last[t])]
    /\ pmsg' = [pmsg EXCEPT ![t] = m]
    /\ hist' = [hist EXCEPT ![t].orig = m]
    /\ bus_id' = AdapterNr(t)
    /\ pc' = [pc EXCEPT ![t] = "addr"]
    /\ UNCHANGED << lock, addr, msg, done, remote,
                    num, i, rmsg, ret >>

(* loop finished: mutex_unlock; return num *)
LoopExit(t) ==
    /\ pc[t] = "loop"
    /\ ~(i[t] < num[t])
    /\ lock' = 0
    /\ Returned(t)
    /\ UNCHANGED << bus_id, addr, msg, done, remote >>

(* i2c_rpmsg.addr = pmsg->addr *)
SetAddr(t) ==
    /\ pc[t] = "addr"
    /\ addr' = pmsg[t].addr
    /\ pc' = [pc EXCEPT ![t] = "op"]
    /\ UNCHANGED << lock, bus_id, msg, done, remote,
                    num, i, is_last, pmsg, rmsg, ret, hist >>

(* ------------------------------------------------------------------ *)
(* i2c_rpmsg_read / i2c_rpmsg_write                                   *)
(* ------------------------------------------------------------------ *)

IsRead(m) == BitAnd(m.flags, I2C_M_RD) # 0

(* operations that check the channel only *)
OpCheckNoLen(m) == IF ~rpdev THEN -EINVAL ELSE 0

(* the checks both operations make before building a frame:
   0 to go on, else the value returned *)
OpCheck(m) ==
    IF ~rpdev THEN -EINVAL
    ELSE IF m.len > I2C_RPMSG_MAX_BUF_SIZE THEN -EINVAL
    ELSE 0

(* rmsg.flags *)
ReqFlags(m, last) ==
    IF last THEN BitOr(m.flags, I2C_RPMSG_M_STOP) ELSE m.flags

(* a frame built without the copy loop *)
ReqBufEmpty(m) == ZeroBuf(I2C_RPMSG_MAX_BUF_SIZE)

(* rmsg.buf after memset: a write copies msg->buf[0 .. len-1] *)
ReqBuf(m) ==
    [j \in 1 .. I2C_RPMSG_MAX_BUF_SIZE |->
        IF ~IsRead(m) /\ j <= m.len THEN m.buf[j] ELSE 0]

(* the request frame rmsg of message m on bus nr *)
BuildRequest(m, nr, last) ==
    [cate |-> I2C_RPMSG_CATEGORY,
     major |-> I2C_RPMSG_VERSION % 256,
     minor |-> I2C_RPMSG_VERSION \div 256,
     type |-> I2C_RPMSG_TYPE_REQUEST,
     cmd |-> IF IsRead(m) THEN I2C_RPMSG_COMMAND_READ
             ELSE I2C_RPMSG_COMMAND_WRITE,
     prio |-> I2C_RPMSG_PRIORITY,
     bus_id |-> nr % 256,
     ret_val |-> 0,
     addr |-> m.addr,
     flags |-> ReqFlags(m, last),
     len |-> m.len,
     buf |-> ReqBuf(m),
     size |-> FrameSize,
     late |-> FALSE, cb |-> "none"]

(* entry of the operation: the checks, the frame, reinit_completion *)
Op(t) ==
    /\ pc[t] = "op"
    /\ IF OpCheck(pmsg[t]) # 0
       THEN /\ ret' = [ret EXCEPT ![t] = OpCheck(pmsg[t])]
            /\ hist' = [hist EXCEPT ![t].failk = i[t],
                                    ![t].faile = OpCheck(pmsg[t])]
            /\ pc' = [pc EXCEPT ![t] = "opret"]
            /\ UNCHANGED << rmsg, done >>
       ELSE /\ rmsg' = [rmsg EXCEPT
                          ![t] = BuildRequest(pmsg[t], AdapterNr(t), is_last[t])]
            /\ done' = 0
            /\ pc' = [pc EXCEPT ![t] = "send"]
            /\ UNCHANGED << ret, hist >>
    /\ UNCHANGED << lock, bus_id, addr, msg, remote,
                    num, i, is_last, pmsg >>

(* ------------------------------------------------------------------ *)
(* rpmsg_xfer                                                         *)
(* ------------------------------------------------------------------ *)

(* remote.cur:  the request of the latest exchange, unless it timed out
   remote.late: the latest request whose exchange timed out
   (the remote side is through with any request before these) *)
Taken(f) ==
    [cmd |-> f.cmd, bus_id |-> f.bus_id, addr |-> f.addr, len |-> f.len,
     held |-> TRUE]

(* rpmsg_send accepts the frame: the remote side has it *)
SendOk(t) ==
    /\ pc[t] = "send"
    /\ remote' = [remote EXCEPT !.cur = Taken(rmsg[t])]
    /\ hist' = [hist EXCEPT ![t].nhand = @ + 1]
    /\ pc' = [pc EXCEPT ![t] = "wait"]
    /\ UNCHANGED << lock, bus_id, addr, msg, done,
                    num, i, is_last, pmsg, rmsg, ret >>

(* rpmsg_send fails with e < 0: return ret *)
SendFail(t, e) ==
    /\ pc[t] = "send"
    /\ ret' = [ret EXCEPT ![t] = e]
    /\ hist' = [hist EXCEPT ![t].nhand = @ + 1, ![t].nfin = @ + 1,
                            ![t].failk = i[t], ![t].faile = e,
                            ![t].xret = e]
    /\ pc' = [pc EXCEPT ![t] = "opret"]
    /\ msg' = Held(msg, pc', done)
    /\ UNCHANGED << lock, bus_id, addr, done, remote,
                    num, i, is_last, pmsg, rmsg >>

(* wait_for_completion_timeout returns nonzero: done was raised *)
WaitDone(t) ==
    /\ pc[t] = "wait"
    /\ done > 0
    /\ done' = done - 1
    /\ pc' = [pc EXCEPT ![t] = "ret1"]
    /\ UNCHANGED << lock, bus_id, addr, msg, remote,
                    num, i, is_last, pmsg, rmsg, ret, hist >>

(* a wait without a timeout *)
NeverTimesOut(d) == FALSE

(* wait_for_completion_timeout(&info->cmd_complete, I2C_RPMSG_TIMEOUT)
   gives up: the timeout has passed and done is not raised *)
TimesOut(d) == d = 0

(* wait_for_completion_timeout returns 0: return -ETIMEDOUT *)
WaitTimeout(t) ==
    /\ pc[t] = "wait"
    /\ TimesOut(done)
    /\ ret' = [ret EXCEPT ![t] = -ETIMEDOUT]
    /\ remote' = [cur |-> NoReq,
                  late |-> IF remote.cur.held THEN remote.cur ELSE remote.late]
    /\ hist' = [hist EXCEPT ![t].nfin = @ + 1,
                            ![t].failk = i[t], ![t].faile = -ETIMEDOUT,
                            ![t].xret = -ETIMEDOUT]
    /\ pc' = [pc EXCEPT ![t] = "opret"]
    /\ UNCHANGED << lock, bus_id, addr, msg, done,
                    num, i, is_last, pmsg, rmsg >>

(* the value rpmsg_xfer returns for the ret_val c read at line 174 *)
RemoteErr(c) == -c

(* where the operation goes when rpmsg_xfer returned r:
   if (ret) return ret; a write returns, a read checks the length *)
AfterXfer(m, r) == IF r # 0 \/ ~IsRead(m) THEN "opret" ELSE "chk"

(* line 171: if (info->msg->ret_val) *)
Ret1(t) ==
    /\ pc[t] = "ret1"
    /\ msg \notin {NULL, STALE}
    /\ hist' = [hist EXCEPT ![t].resp = msg, ![t].nfin = @ + 1,
                            ![t].code = msg.ret_val,
                            ![t].xret = IF msg.ret_val # 0 THEN 1 ELSE 0]
    /\ IF msg.ret_val # 0
       THEN /\ pc' = [pc EXCEPT ![t] = "ret2"]
            /\ UNCHANGED ret
       ELSE /\ ret' = [ret EXCEPT ![t] = 0]
            /\ pc' = [pc EXCEPT ![t] = AfterXfer(pmsg[t], 0)]
    /\ msg' = Held(msg, pc', done)
    /\ UNCHANGED << lock, bus_id, addr, done, remote,
                    num, i, is_last, pmsg, rmsg >>

(* line 174: return -(info->msg->ret_val) *)
Ret2(t) ==
    /\ pc[t] = "ret2"
    /\ msg \notin {NULL, STALE}
    /\ LET r == RemoteErr(msg.ret_val) IN
         /\ ret' = [ret EXCEPT ![t] = r]
         /\ hist' = IF r # 0
                    THEN [hist EXCEPT ![t].failk = i[t], ![t].faile = r,
                                      ![t].xret = r]
                    ELSE [hist EXCEPT ![t].xret = r]
         /\ pc' = [pc EXCEPT ![t] = AfterXfer(pmsg[t], r)]
    /\ msg' = Held(msg, pc', done)
    /\ UNCHANGED << lock, bus_id, addr, done, remote,
                    num, i, is_last, pmsg, rmsg >>

(* ------------------------------------------------------------------ *)
(* i2c_rpmsg_read after rpmsg_xfer returned 0                         *)
(* ------------------------------------------------------------------ *)

(* line 219: info->msg->len != msg->len *)
LenMismatch(flen, mlen) == flen # mlen

(* lines 218-223 *)
Chk(t) ==
    /\ pc[t] = "chk"
    /\ msg # STALE
    /\ IF msg = NULL \/ LenMismatch(msg.len, pmsg[t].len)
       THEN /\ ret' = [ret EXCEPT ![t] = -EPROTO]
            /\ hist' = [hist EXCEPT ![t].failk = i[t], ![t].faile = -EPROTO,
                                    ![t].resp = IF msg = NULL THEN NoFrame
                                                ELSE msg]
            /\ pc' = [pc EXCEPT ![t] = "opret"]
       ELSE /\ pc' = [pc EXCEPT ![t] = "copy"]
            /\ hist' = [hist EXCEPT ![t].resp = msg]
            /\ UNCHANGED ret
    /\ msg' = Held(msg, pc', done)
    /\ UNCHANGED << lock, bus_id, addr, done, remote,
                    num, i, is_last, pmsg, rmsg >>

(* memcpy(dst, f.buf, n): n bytes starting at f.buf; bytes past the 16 of
   the frame come from the memory behind it (junk), bytes written past the
   end of dst land in the memory behind dst *)
Memcpy(dst, f, n, junk) ==
    [j \in 1 .. Max(Len(dst), n) |->
        IF j <= n
        THEN (IF j <= I2C_RPMSG_MAX_BUF_SIZE THEN f.buf[j] ELSE junk)
        ELSE dst[j]]

(* line 225: memcpy(msg->buf, info->msg->buf, info->msg->len);
   line 227: return msg->len *)
Copy(t, junk) ==
    /\ pc[t] = "copy"
    /\ msg \notin {NULL, STALE}
    /\ pmsg' = [pmsg EXCEPT
                  ![t].buf = Memcpy(pmsg[t].buf, msg, msg.len, junk)]
    /\ ret' = [ret EXCEPT ![t] = pmsg[t].len]
    /\ pc' = [pc EXCEPT ![t] = "opret"]
    /\ msg' = Held(msg, pc', done)
    /\ UNCHANGED << lock, bus_id, addr, done, remote,
                    num, i, is_last, rmsg, hist >>

(* an i2c_rpbus_xfer that returns one value for every failure *)
XferGeneric(r) == -1

(* the value i2c_rpbus_xfer returns when an operation returned r < 0 *)
XferErr(r) == r

(* the value i2c_rpbus_xfer returns when the loop is through *)
XferCount(n) == n

(* the value thread t's call is about to return, "none" while it is not at
   a return statement *)
RetVal(t) ==
    IF pc[t] = "opret" /\ ret[t] < 0 THEN XferErr(ret[t])
    ELSE IF pc[t] = "loop" /\ ~(i[t] < num[t]) THEN XferCount(num[t])
    ELSE "none"

(* an i2c_rpbus_xfer that unlocks after every message *)
LockAfterEach(r) == 0

(* an i2c_rpbus_xfer that returns a failure without unlocking *)
LockLeak(r) == lock

(* the owner of the lock after the operation returned r:
   if (ret < 0) { mutex_unlock(&i2c_rpmsg.lock); ... } *)
LockAfter(r) == IF r < 0 THEN 0 ELSE lock

(* i2c_rpbus_xfer after the operation returned ret:
   if (ret < 0) { mutex_unlock; return ret; }  a read sets pmsg->len = ret *)
OpRet(t) ==
    /\ pc[t] = "opret"
    /\ IF ret[t] < 0
       THEN /\ Returned(t)
       ELSE /\ pmsg' = IF IsRead(pmsg[t])
                       THEN [pmsg EXCEPT ![t].len = ret[t]]
                       ELSE pmsg
            /\ i' = [i EXCEPT ![t] = @ + 1]
            /\ pc' = [pc EXCEPT ![t] = "loop"]
            /\ hist' = [hist EXCEPT ![t].orig = NoMsg, ![t].resp = NoFrame,
                                    ![t].code = -1, ![t].xret = 1]
            /\ UNCHANGED << num, is_last, rmsg, ret >>
    /\ lock' = LockAfter(ret[t])
    /\ UNCHANGED << bus_id, addr, msg, done, remote >>

(* ------------------------------------------------------------------ *)
(* the remote side and i2c_rpmsg_cb                                   *)
(* ------------------------------------------------------------------ *)

ReadData(n) ==
    [j \in 1 .. I2C_RPMSG_MAX_BUF_SIZE |-> IF j <= n THEN 80 + j ELSE 0]

(* the answer the remote side owes request q *)
Reply(q) ==
    [cate |-> I2C_RPMSG_CATEGORY,
     major |-> I2C_RPMSG_VERSION % 256,
     minor |-> I2C_RPMSG_VERSION \div 256,
     type |-> I2C_RPMSG_TYPE_RESPONSE,
     cmd |-> q.cmd,
     prio |-> I2C_RPMSG_PRIORITY,
     bus_id |-> q.bus_id,
     ret_val |-> 0,
     addr |-> q.addr,
     flags |-> 0,
     len |-> q.len,
     buf |-> IF q.cmd = I2C_RPMSG_COMMAND_READ
             THEN ReadData(q.len) ELSE ZeroBuf(I2C_RPMSG_MAX_BUF_SIZE),
     size |-> FrameSize,
     late |-> FALSE, cb |-> "none"]

RetCodes  == {10}
WrongLens == {1, I2C_RPMSG_MAX_BUF_SIZE + 1}

(* what the remote side may do with the answer: send it as it is, with a
   return code, or with one field wrong *)
Devs ==
    {<<"ok", 0>>, <<"type", 0>>, <<"cmd", 0>>, <<"bus", 0>>, <<"addr", 0>>}
    \cup {<<"ret", c>> : c \in RetCodes}
    \cup {<<"len", l>> : l \in WrongLens}

(* HeadSize: the bytes of a frame before buf.  A "short" frame ends there:
   what the driver reads as buf is what the receive buffer held before, the
   byte dv[2] throughout.  A "long" frame has one byte more than the
   struct. *)
HeadSize == FrameSize - I2C_RPMSG_MAX_BUF_SIZE

Deviate(f, dv) ==
    CASE dv[1] = "ok"   -> f
      [] dv[1] = "short" ->
             [f EXCEPT !.size = HeadSize,
                       !.buf = [j \in 1 .. I2C_RPMSG_MAX_BUF_SIZE |-> dv[2]]]
      [] dv[1] = "long" -> [f EXCEPT !.size = FrameSize + 1]
      [] dv[1] = "ret"  -> [f EXCEPT !.ret_val = dv[2]]
      [] dv[1] = "len"  -> [f EXCEPT !.len = dv[2]]
      [] dv[1] = "type" -> [f EXCEPT !.type = I2C_RPMSG_TYPE_REQUEST]
      [] dv[1] = "cmd"  -> [f EXCEPT !.cmd = 1 - f.cmd]
      [] dv[1] = "bus"  -> [f EXCEPT !.bus_id = f.bus_id + 1]
      [] dv[1] = "addr" -> [f EXCEPT !.addr = f.addr + 1]

(* the checks of i2c_rpmsg_cb: the one that drops the frame, else "ok" *)
CbVerdict(f) ==
    IF f.type # I2C_RPMSG_TYPE_RESPONSE THEN "type"
    ELSE IF f.bus_id # bus_id \/ f.addr # addr THEN "key"
    ELSE IF f.len > I2C_RPMSG_MAX_BUF_SIZE THEN "len"
    ELSE "ok"

(* the value i2c_rpmsg_cb returns *)
CbCheck(f) == IF CbVerdict(f) = "ok" THEN 0 ELSE -EINVAL

(* the transport receives frame f and calls i2c_rpmsg_cb(rpdev, data, ...)
   with data pointing to it; same: the buffer it was received into is the
   one i2c_rpmsg.msg points to, which a caller can still read.
   line 146: i2c_rpmsg.msg = msg; line 148: complete(&cmd_complete) *)
Receive(f, same) ==
    IF CbCheck(f) = 0
    THEN /\ done < MaxDone
         /\ msg' = Held([f EXCEPT !.cb = "ok"], pc, done + 1)
         /\ done' = done + 1
    ELSE /\ msg' = IF same THEN [f EXCEPT !.cb = CbVerdict(f)] ELSE msg
         /\ UNCHANGED done

(* the frame the remote side sends for request w with deviation dv *)
PeerFrame(w, dv) ==
    [Deviate(Reply(remote[w]), dv) EXCEPT !.late = (w = "late")]

(* the remote side sends a frame for a request it holds *)
PeerReply(w, dv, same) ==
    /\ remote[w].held
    /\ same => msg \notin {NULL, STALE}
    /\ Receive(PeerFrame(w, dv), same)
    /\ UNCHANGED << lock, bus_id, addr, remote,
                    pc, num, i, is_last, pmsg, rmsg, ret, hist >>

(* ------------------------------------------------------------------ *)

(* the messages a caller may pass; one has the STOP bit set by the caller *)
Messages ==
    {I2cMsg(a, f, l) : a \in Addrs, f \in MsgFlags, l \in MsgLens}
    \cup {I2cMsg(a, I2C_RPMSG_M_STOP, 2) : a \in Addrs}

Next ==
    \/ \E t \in Threads : Call(t)
    \/ \E t \in Threads, n \in 0 .. MaxMsgs : Lock(t, n)
    \/ \E t \in Threads, m \in Messages : LoopNext(t, m)
    \/ \E t \in Threads : LoopExit(t)
    \/ \E t \in Threads : SetAddr(t)
    \/ \E t \in Threads : Op(t)
    \/ \E t \in Threads : SendOk(t)
    \/ \E t \in Threads, e \in SendErrs : SendFail(t, e)
    \/ \E t \in Threads : WaitDone(t)
    \/ \E t \in Threads : WaitTimeout(t)
    \/ \E t \in Threads : Ret1(t)
    \/ \E t \in Threads : Ret2(t)
    \/ \E t \in Threads : Chk(t)
    \/ \E t \in Threads, junk \in {0, 255} : Copy(t, junk)
    \/ \E t \in Threads : OpRet(t)
    \/ \E w \in {"cur", "late"}, dv \in Devs, same \in BOOLEAN :
          PeerReply(w, dv, same)

Spec == Init /\ [][Next]_vars

(* ---- one caller, a remote side with more ways to answer ---- *)

AddrsOne    == {80, 81}
RetCodesOne == {13, EINVAL, EPROTO, ETIMEDOUT, 255}

MessagesOne == {I2cMsg(a, f, 2) : a \in AddrsOne, f \in MsgFlags}

DevsOne ==
    {<<"ok", 0>>, <<"cmd", 0>>, <<"long", 0>>}
    \cup {<<"ret", c>> : c \in RetCodesOne}
    \cup {<<"short", b>> : b \in {0, 255}}

NextOne ==
    \/ Call(1)
    \/ Lock(1, 1)
    \/ \E m \in MessagesOne : LoopNext(1, m)
    \/ LoopExit(1)
    \/ SetAddr(1)
    \/ Op(1)
    \/ SendOk(1)
    \/ \E e \in SendErrs : SendFail(1, e)
    \/ WaitDone(1)
    \/ WaitTimeout(1)
    \/ Ret1(1)
    \/ Ret2(1)
    \/ Chk(1)
    \/ \E junk \in {0, 255} : Copy(1, junk)
    \/ OpRet(1)
    \/ \E w \in {"cur", "late"}, dv \in DevsOne, same \in BOOLEAN :
          PeerReply(w, dv, same)

SpecOne == Init /\ [][NextOne]_vars

(* the steps of caller t once it owns the lock *)
Run(t) ==
    \/ \E m \in Messages : LoopNext(t, m)
    \/ LoopExit(t)
    \/ SetAddr(t)
    \/ Op(t)
    \/ SendOk(t)
    \/ \E e \in SendErrs : SendFail(t, e)
    \/ WaitDone(t)
    \/ WaitTimeout(t)
    \/ Ret1(t)
    \/ Ret2(t)
    \/ Chk(t)
    \/ \E junk \in {0, 255} : Copy(t, junk)
    \/ OpRet(t)

(* a caller that can run does run: rpmsg_send returns and
   wait_for_completion_timeout returns after I2C_RPMSG_TIMEOUT at the
   latest; a caller blocked in mutex_lock is not passed over for ever *)
SpecFair ==
    /\ Spec
    /\ \A t \in Threads :
          /\ WF_vars(Run(t))
          /\ SF_vars(\E n \in 0 .. MaxMsgs : Lock(t, n))

(* every read of *i2c_rpmsg.msg finds the content the model kept *)
NoStaleRead == \A t \in Threads : pc[t] \in Reading => msg \notin {NULL, STALE}

(* ------------------------------------------------------------------ *)
(* properties                                                         *)
(* ------------------------------------------------------------------ *)

(* caller t is between the write of i2c_rpmsg.bus_id (line 332) and the
   return of rpmsg_xfer *)
InExchange(t) == pc[t] \in {"addr", "op", "send", "wait", "ret1", "ret2"}

(* the step of caller t writes i2c_rpmsg.bus_id or i2c_rpmsg.addr *)
WritesExpected(t) ==
    \/ pc[t] = "loop" /\ pc'[t] = "addr"
    \/ pc[t] = "addr" /\ pc'[t] = "op"

(* the step hands a frame of caller t to rpmsg_send *)
SendStep(t) == pc[t] = "send" /\ pc'[t] # "send"

(* C1: at most one caller is between installing the expected bus id and
   address and the return of its rpmsg_xfer, and every write of the
   expected bus id or address is a step of the caller that holds the
   lock. *)
C1_OneExchange ==
    /\ [](Cardinality({t \in Threads : InExchange(t)}) <= 1)
    /\ [][ /\ \A t \in Threads : WritesExpected(t) => lock = t /\ lock' = t
           /\ (bus_id' # bus_id \/ addr' # addr)
                  => \E t \in Threads : WritesExpected(t) ]_vars

(* one caller waits for its response while another waits for the lock *)
C1_Witness ==
    \E t, u \in Threads :
        t # u /\ pc[t] = "wait" /\ lock = t /\ pc[u] = "lock"

(* C2: an exchange that ends without a response and without a send
   failure returns -ETIMEDOUT, and no exchange consumes a frame the remote
   side sent in reply to a request whose exchange had timed out. *)
C2_LateDropped ==
    \A t \in Threads :
        /\ (pc[t] = "opret" /\ hist[t].nfin = i[t] + 1
               /\ hist[t].resp = NoFrame /\ hist[t].xret \notin SendErrs)
              => hist[t].xret = -ETIMEDOUT /\ ret[t] = -ETIMEDOUT
        /\ ~hist[t].resp.late

(* an exchange timed out, so the late-reply case can arise *)
C2_Witness ==
    \E t \in Threads :
        pc[t] = "opret" /\ hist[t].xret = -ETIMEDOUT /\ remote.late.held

(* C3: the frame of message i is handed to rpmsg_send only when the
   exchanges of messages 0 .. i-1 of the same call have all ended, and
   only while no other call is between its first frame and its return. *)
C3_Sequential ==
    [][ \A t \in Threads :
          SendStep(t) =>
            /\ hist[t].nhand = i[t]
            /\ hist[t].nfin = i[t]
            /\ \A u \in Threads \ {t} : hist[u].nhand = 0 ]_vars

(* the second frame of a transfer is about to be sent while another
   caller waits for the lock *)
C3_Witness ==
    \E t, u \in Threads :
        t # u /\ pc[t] = "send" /\ i[t] = 1 /\ hist[t].nfin = 1
              /\ pc[u] = "lock"

(* frame f is a Response whose bus id or address is not the expected one *)
KeyMismatch(f) ==
    /\ f.type = I2C_RPMSG_TYPE_RESPONSE
    /\ (f.bus_id # bus_id \/ f.addr # addr)

(* C4: a Response frame whose bus id or address differs from the expected
   ones leaves the result slot and the completion as they are and resolves
   no exchange, and no exchange reads a field of such a frame. *)
C4_MismatchDropped ==
    /\ [][ \A w \in {"cur", "late"}, dv \in Devs, same \in BOOLEAN :
             (PeerReply(w, dv, same) /\ KeyMismatch(PeerFrame(w, dv)))
                => /\ done' = done
                   /\ pc' = pc
                   /\ (~same => msg' = msg) ]_vars
    /\ [](\A t \in Threads :
             /\ hist[t].resp.cb # "key"
             /\ pc[t] \in Reading => msg.cb # "key")

(* C5: when the operation of message k fails the call is at its return
   statement with the value that operation produced, it has handed no frame
   past the one of message k, and its next step is the return. *)
C5_AbortOnFailure ==
    /\ [](\A t \in Threads :
             /\ hist[t].nhand <= i[t] + 1
             /\ hist[t].failk >= 0
                  => /\ pc[t] = "opret"
                     /\ hist[t].failk = i[t]
                     /\ hist[t].faile < 0
                     /\ ret[t] = hist[t].faile
                     /\ RetVal(t) = hist[t].faile)
    /\ [][ \A t \in Threads :
             hist[t].failk >= 0 => pc'[t] \in {"opret", "idle"} ]_vars

(* the first of two messages failed with a timeout *)
C5_Witness ==
    \E t \in Threads :
        /\ pc[t] = "opret" /\ num[t] = 2
        /\ hist[t].failk = 0 /\ hist[t].faile = -ETIMEDOUT

(* flags f with the STOP bit added *)
WithStop(f) ==
    IF (f \div I2C_RPMSG_M_STOP) % 2 = 1 THEN f ELSE f + I2C_RPMSG_M_STOP

(* C6: the frame of the last message of a transfer carries the message's
   flags with the STOP bit set, the frame of any other message carries the
   message's flags unchanged. *)
C6_StopOnLast ==
    \A t \in Threads :
        pc[t] = "send" =>
            /\ rmsg[t].flags =
                  IF i[t] = num[t] - 1 THEN WithStop(hist[t].orig.flags)
                  ELSE hist[t].orig.flags
            /\ rmsg[t].flags # hist[t].orig.flags => i[t] = num[t] - 1

(* both frames of a transfer of two: the first without, the last with STOP *)
C6_Witness ==
    \E t \in Threads :
        /\ pc[t] = "send" /\ num[t] = 2 /\ i[t] = 1
        /\ hist[t].orig.flags = I2C_M_RD
        /\ rmsg[t].flags = I2C_M_RD + I2C_RPMSG_M_STOP

(* caller t is inside i2c_rpbus_xfer, past mutex_lock *)
Executing(t) == pc[t] \notin {"idle", "lock"}

(* C7: a call owns the lock from mutex_lock to its return and on no exit
   path keeps it: the lock is free when no call is past mutex_lock; and a
   caller waiting in mutex_lock acquires the lock in the end. *)
C7_LockDiscipline ==
    /\ [](\A t \in Threads :
             /\ Executing(t) => lock = t
             /\ lock = t => Executing(t))
    /\ [](lock # 0 \/ \A t \in Threads : ~Executing(t))
    /\ \A t \in Threads : (pc[t] = "lock") ~> (lock = t)

(* a caller waits in mutex_lock while the owner is about to return a
   failure *)
C7_Witness ==
    \E t, u \in Threads :
        /\ t # u /\ pc[t] = "lock"
        /\ lock = u /\ pc[u] = "opret" /\ ret[u] < 0

(* C8: when the response an exchange consumed carries the return code
   c # 0, the operation and the transfer return -c; when it carries 0 the
   operation returns no error of the remote side. *)
C8_RemoteCode ==
    \A t \in Threads :
        (pc[t] = "opret" /\ hist[t].code >= 0) =>
            /\ hist[t].code # 0
                 => /\ ret[t] = -hist[t].code
                    /\ RetVal(t) = -hist[t].code
            /\ hist[t].code = 0
                 => (ret[t] >= 0 \/ ret[t] = -EPROTO)

(* C9: a message longer than I2C_RPMSG_MAX_BUF_SIZE gets no frame: its
   operation returns -EINVAL with only the frames of the messages before
   it handed to rpmsg_send; and no frame handed to rpmsg_send has a len
   above I2C_RPMSG_MAX_BUF_SIZE. *)
C9_TooLong ==
    \A t \in Threads :
        /\ pc[t] = "send" => rmsg[t].len <= I2C_RPMSG_MAX_BUF_SIZE
        /\ hist[t].orig.len > I2C_RPMSG_MAX_BUF_SIZE
             => /\ pc[t] \in {"addr", "op", "opret"}
                /\ hist[t].nhand = i[t]
                /\ pc[t] = "opret"
                     => /\ ret[t] = -EINVAL
                        /\ RetVal(t) = -EINVAL
                        /\ hist[t].failk = i[t]

(* the second message of a transfer is too long, after one frame went out *)
C9_Witness ==
    \E t \in Threads :
        /\ pc[t] = "opret" /\ i[t] = 1 /\ hist[t].nhand = 1
        /\ hist[t].orig.len = I2C_RPMSG_MAX_BUF_SIZE + 1
        /\ ret[t] = -EINVAL

(* C10: after a read whose rpmsg_xfer returned 0 on the return code 0,
   for the response whose len the read compared with the message's
   (line 219): if the response's len is not the
   message's len the read returns -EPROTO with the message's buffer
   untouched; if it is, the read returns the message's len and the buffer
   holds the response's payload in its first len bytes and nothing past
   them has changed. *)
C10_ReadResult ==
    \A t \in Threads :
        (/\ pc[t] = "opret" /\ IsRead(hist[t].orig)
         /\ hist[t].xret = 0 /\ hist[t].code = 0
         /\ hist[t].resp # NoFrame) =>
            LET o == hist[t].orig
                r == hist[t].resp
            IN  /\ pmsg[t].len = o.len
                /\ r.len # o.len
                     => ret[t] = -EPROTO /\ pmsg[t].buf = o.buf
                /\ r.len = o.len
                     => /\ ret[t] = o.len
                        /\ Len(pmsg[t].buf) = Len(o.buf)
                        /\ \A j \in 1 .. o.len : pmsg[t].buf[j] = r.buf[j]

(* the exchange of the operation with history h read the return code 0
   and, for a read, a len equal to the message's *)
ExchangeOk(h) ==
    /\ h.code = 0
    /\ IsRead(h.orig) => (h.resp # NoFrame /\ h.resp.len = h.orig.len)

(* C11: a transfer returns num exactly when each of its num operations
   reported success, an operation reports success only for an exchange that
   was sent and read the return code 0 and, for a read, a matching len, and
   the transfer has then handed exactly num frames to rpmsg_send; a
   transfer with a failed message returns a negative value. *)
C11_CountIffAllOk ==
    \A t \in Threads :
        /\ (pc[t] = "loop" /\ ~(i[t] < num[t]))
              => /\ RetVal(t) = num[t]
                 /\ i[t] = num[t]
                 /\ hist[t].nhand = num[t]
        /\ (pc[t] = "opret" /\ ret[t] >= 0)
              => /\ hist[t].nhand = i[t] + 1
                 /\ ExchangeOk(hist[t])
        /\ (pc[t] = "opret" /\ ret[t] < 0)
              => /\ RetVal(t) < 0
                 /\ i[t] < num[t]

(* C12: a caller in the completion wait can always leave it, by a raised
   completion or by the timeout, and every call that has started returns. *)
C12_Returns ==
    /\ [](\A t \in Threads :
             pc[t] = "wait" => ENABLED (WaitDone(t) \/ WaitTimeout(t)))
    /\ \A t \in Threads : (pc[t] # "idle") ~> (pc[t] = "idle")

(* a caller waits for a response the remote side does not send while
   another caller waits for the lock *)
C12_Witness ==
    \E t, u \in Threads :
        /\ t # u /\ pc[t] = "wait" /\ done = 0
        /\ pc[u] = "lock"

(* C13: a received byte sequence that is not FrameSize bytes long is
   never taken by the callback and never read as a response. *)
C13_MalformedDropped ==
    /\ (msg \notin {NULL, STALE} /\ msg.cb = "ok") => msg.size = FrameSize
    /\ \A t \in Threads :
          hist[t].resp # NoFrame => hist[t].resp.size = FrameSize

(* C14: when an exchange has consumed a response, the value rpmsg_xfer
   returns is none of -ETIMEDOUT, -EINVAL and -EPROTO, whatever return code
   the response carries. *)
C14_TimeoutDistinct ==
    \A t \in Threads :
        (pc[t] = "opret" /\ hist[t].code >= 0 /\ hist[t].xret <= 0)
            => hist[t].xret \notin {-ETIMEDOUT, -EINVAL, -EPROTO}

(* C15: the frame handed to rpmsg_send for a message of at most
   I2C_RPMSG_MAX_BUF_SIZE bytes is a Request with the command of the
   message's direction, the adapter's number, the message's address and
   len and, for a write, the message's first len bytes in order. *)
C15_RequestFields ==
    \A t \in Threads :
        pc[t] = "send" =>
            LET o == hist[t].orig
                f == rmsg[t]
            IN  /\ o.len <= I2C_RPMSG_MAX_BUF_SIZE
                /\ f.type = I2C_RPMSG_TYPE_REQUEST
                /\ f.cmd = IF (o.flags % 2) = 1 THEN I2C_RPMSG_COMMAND_READ
                           ELSE I2C_RPMSG_COMMAND_WRITE
                /\ f.bus_id = AdapterNr(t)
                /\ f.addr = o.addr
                /\ f.len = o.len
                /\ f.size = FrameSize
                /\ (o.flags % 2) = 0
                     => \A j \in 1 .. o.len : f.buf[j] = o.buf[j]

(* the frame of a two-byte write is about to be sent *)
C15_Witness ==
    \E t \in Threads :
        /\ pc[t] = "send" /\ hist[t].orig.flags = 0 /\ hist[t].orig.len = 2
        /\ rmsg[t].buf[1] = 161 /\ rmsg[t].buf[2] = 162

(* C16: the completion is raised at most once for an exchange, and the
   frame an exchange read first is still the stored result at each later
   read of the same operation. *)
C16_SingleResult ==
    /\ done <= 1
    /\ \A t \in Threads :
          pc[t] \in {"ret2", "chk", "copy"} => msg = hist[t].resp

(* C17: the completion is raised only while an exchange is outstanding
   (from rpmsg_send to the return of rpmsg_xfer). *)
C17_ClearedAfterExchange ==
    done > 0 => \E t \in Threads : pc[t] \in {"send", "wait", "ret1", "ret2"}

(* C18: whenever the callback can run, the expected address belongs to
   the same exchange as the expected bus id, and between the write of the
   expected address and reinit_completion the callback takes no frame. *)
C18_AtomicInstall ==
    /\ [](\A t \in Threads :
             (pc[t] = "addr" /\ addr # 0) => addr = pmsg[t].addr)
    /\ [][ \A t \in Threads :
             (pc[t] = "op" /\ pc'[t] = "op") => done' <= done ]_vars

(* C19: every frame an exchange reads as its result has the type Response
   and a len of at most I2C_RPMSG_MAX_BUF_SIZE, and so has every frame the
   callback took. *)
C19_TypeAndLen ==
    /\ (msg \notin {NULL, STALE} /\ msg.cb = "ok")
          => /\ msg.type = I2C_RPMSG_TYPE_RESPONSE
             /\ msg.len <= I2C_RPMSG_MAX_BUF_SIZE
    /\ \A t \in Threads :
          hist[t].resp # NoFrame
             => /\ hist[t].resp.type = I2C_RPMSG_TYPE_RESPONSE
                /\ hist[t].resp.len <= I2C_RPMSG_MAX_BUF_SIZE

(* C20: the frame an exchange reads as its result carries the command of
   the request the exchange sent. *)
C20_SameCommand ==
    \A t \in Threads :
        hist[t].resp # NoFrame => hist[t].resp.cmd = rmsg[t].cmd

====
